---- MODULE Spec2Model ----
(***************************************************************************)
(* Model of src/main.py: the deal bot's publication cycle                  *)
(* (VucciaroSystem.publish_next_deal), its SQLite ledger and cache, the    *)
(* Keepa record parsers, the selector and the scheduler loop of main().   *)
(*                                                                         *)
(* Units.  clock counts whole hours of UTC.  datetime.now() is the local   *)
(* wall clock, clock + tz.  SQLite's CURRENT_TIMESTAMP is UTC.  Prices are *)
(* minor units (cents), ratings are tenths of a star, scores are tenths of *)
(* a point, so that every comparison of the code is made on integers.      *)
(*                                                                         *)
(* Left out: KeepaClient.token_count (only logged), the text of the        *)
(* message, and the columns channel, title, price and discount of          *)
(* posted_products, which no query reads.  json.dumps/json.loads of the    *)
(* cached list (dicts of strings, numbers, booleans and None) gives the    *)
(* list back, so keepa_cache holds the list itself.                        *)
(*                                                                         *)
(* Specifications.  Spec: cycles and the passing of time.  SpecFaults:     *)
(* cycles in which a database call raises.  SpecRestarts: the process is   *)
(* stopped and started between cycles.  SpecLimited: cycles with the       *)
(* result of each Keepa request noted per endpoint.  SpecAnyFeed: cycles   *)
(* on records Keepa is free to return.  SpecInstances: two processes on    *)
(* one database, statement by statement.  SpecAnyFeedRestarts: such       *)
(* records and restarts together.  SpecSelect and SpecParse: the           *)
(* selector and the parsers called alone.                                  *)
(***************************************************************************)
EXTENDS Integers, Sequences, FiniteSets, TLC

VARIABLES
    clock,                  \* UTC time, in hours
    tz,                     \* offset of the process's local time to UTC, hours
    pc,                     \* main(): "first" | "loop" | "crashed"
    posted_products,        \* table posted_products: set of rows [asin, posted_at]
    keepa_cache,            \* table keepa_cache: cache_key -> <<>> or <<[data, cached_at]>>
    channel_rotation,       \* VucciaroSystem.channel_rotation
    current_channel_index,  \* VucciaroSystem.current_channel_index
    ticks,                  \* number of clock advances so far (bounds the model)
    last,                   \* what the last run of publish_next_deal did
    recent,                 \* channels chosen by this process's last attempted cycles
    published,              \* asin -> UTC hour of its latest successful publish, or Never
    sel,                    \* the selector called alone: its arguments, the ledger, its results
    norm,                   \* a parser called alone: the raw record and the candidates it gave
    inst,                   \* two processes on one database file: where each is in its cycle
    limited                 \* per Keepa endpoint: did its latest request fail, was it asked again then

vars == <<clock, tz, pc, posted_products, keepa_cache, channel_rotation,
          current_channel_index, ticks, last, recent, published, sel, norm, inst,
          limited>>

---------------------------------------------------------------------------
(* Program constants *)

START_HOUR == 7
END_HOUR == 23
MIN_DISCOUNT == 15
MIN_RATING10 == 35
MIN_REVIEWS == 10
MIN_PRICE == 500
MAX_PRICE == 40000
COOLDOWN_HOURS == 48
LIGHTNING_TTL_HALF_HOURS == 1
BROWSING_TTL_HALF_HOURS == 4

CHANNELS == {"tech", "moda"}

\* The Keepa category ids exceed TLC's integers: they are kept as strings.
CATEGORY_MAP == [c \in CHANNELS |->
                    IF c = "tech" THEN <<"412609031", "1497228031", "473257031", "425916031">>
                                  ELSE <<"5515768031", "5515769031", "26039478031">>]

CacheKeys == {"lightning_deals", "browsing_tech", "browsing_moda"}

---------------------------------------------------------------------------
(* Bounds of the model *)

MaxTicks == 2
MaxTz == 1
LongStep == COOLDOWN_HOURS - 1

TickSteps == {1, LongStep}
TzOffsets == 0..MaxTz
ClockStart == END_HOUR - 2

None == "None"
Never == 0 - 1

---------------------------------------------------------------------------
(* Helpers *)

Get(deal, key, default) == IF key \in DOMAIN deal THEN deal[key] ELSE default

Range(s) == {s[i] : i \in 1..Len(s)}

Min(a, b) == IF a < b THEN a ELSE b

LocalNow == clock + tz

LocalHour == LocalNow % 24

---------------------------------------------------------------------------
(* Database: posted_products and keepa_cache *)

\* SELECT 1 FROM posted_products WHERE asin = ? AND posted_at > ?  with
\* cutoff = datetime.now() - timedelta(hours): rows hold posted_at in UTC
\* (CURRENT_TIMESTAMP), cutoff is a local wall-clock value; a NULL asin
\* matches no row.
is_product_posted_at(rows, asin, hours, localnow) ==
    \E r \in rows : /\ asin # None
                    /\ r.asin = asin
                    /\ r.posted_at > localnow - hours

is_product_posted(asin, hours) ==
    is_product_posted_at(posted_products, asin, hours, LocalNow)

\* Faulty variant: INSERT OR IGNORE, an existing row keeps its posted_at.
mark_as_posted_or_ignore(rows, asin, utcnow) ==
    IF asin # None /\ \E r \in rows : r.asin = asin
    THEN rows
    ELSE rows \cup {[asin |-> asin, posted_at |-> utcnow]}

\* INSERT OR REPLACE INTO posted_products (asin, ...): the row of the same
\* asin is replaced, posted_at takes DEFAULT CURRENT_TIMESTAMP (UTC).  A NULL
\* asin conflicts with no row of a TEXT PRIMARY KEY.
mark_as_posted(rows, asin, utcnow) ==
    {r \in rows : r.asin # asin \/ asin = None} \cup {[asin |-> asin, posted_at |-> utcnow]}

\* Faulty variant: the age of the entry is not looked at.
get_cached_data_any_age(cache, cache_key, max_age_half_hours) ==
    IF cache[cache_key] # <<>> THEN cache[cache_key][1].data ELSE <<>>

\* SELECT data FROM keepa_cache WHERE cache_key = ? AND cached_at > ?  with
\* cutoff = datetime.now() - timedelta(hours=max_age_hours); max_age is given
\* in half hours (0.5 h and 2 h in the callers).  <<>> stands for None.
get_cached_data(cache, cache_key, max_age_half_hours) ==
    IF /\ cache[cache_key] # <<>>
       /\ 2 * cache[cache_key][1].cached_at > 2 * LocalNow - max_age_half_hours
    THEN cache[cache_key][1].data
    ELSE <<>>

\* INSERT OR REPLACE INTO keepa_cache (cache_key, data, cached_at)
\* VALUES (?, json.dumps(data), datetime.now())
cache_data(cache, cache_key, data) ==
    [cache EXCEPT ![cache_key] = <<[data |-> data, cached_at |-> LocalNow]>>]

---------------------------------------------------------------------------
(* Keepa record parsers *)

\* rating = deal.get('rating', 0) / 10.0 if deal.get('rating') else 0, kept in tenths
rating10_of(deal) == IF Get(deal, "rating", 0) # 0 THEN deal["rating"] ELSE 0

\* Faulty variant: the number of reviews is not checked.
below_quality_rating_only(rating, review_count) == rating < MIN_RATING10

\* if rating < MIN_RATING or review_count < MIN_REVIEWS: continue
below_quality(rating, review_count) == rating < MIN_RATING10 \/ review_count < MIN_REVIEWS

parse_lightning_deal(deal, now) ==
    LET deal_price == Get(deal, "dealPrice", 0)
        current_price == Get(deal, "currentPrice", 0)
        percent_off == Get(deal, "percentOff", 0)
        rating == rating10_of(deal)
        review_count == Get(deal, "totalReviews", 0)
        end_time == Get(deal, "endTime", 0)
    IN  IF Get(deal, "dealState", "") \notin {"AVAILABLE", "WAITLIST"} THEN <<>>
        ELSE IF deal_price = 0 \/ current_price = 0 THEN <<>>
        ELSE IF percent_off < MIN_DISCOUNT THEN <<>>
        ELSE IF below_quality(rating, review_count) THEN <<>>
        ELSE << [asin |-> Get(deal, "asin", None),
                 current_price |-> deal_price,
                 list_price |-> current_price,
                 discount_percent |-> percent_off,
                 rating |-> rating,
                 review_count |-> review_count,
                 is_lightning |-> TRUE,
                 hours_left |-> IF end_time > now THEN end_time - now ELSE 0] >>

RECURSIVE _parse_lightning_deals(_, _)
_parse_lightning_deals(raw_deals, now) ==
    IF raw_deals = <<>> THEN <<>>
    ELSE parse_lightning_deal(Head(raw_deals), now) \o _parse_lightning_deals(Tail(raw_deals), now)

\* Prices <<current, reference>> of this model whose discount is a whole
\* number of percent that the double arithmetic of the code misses from below:
\* ((10000 - 7100) / 10000) * 100 is 28.999999999999996.
FloatBelow == {<<7100, 10000>>}

\* int(((list_price - current_price) / list_price) * 100): the float product
\* is truncated.  On every other pair of prices of this model the product
\* truncates to the integer quotient.
browsing_discount(current_price, list_price) ==
    ((list_price - current_price) * 100) \div list_price
    - (IF <<current_price, list_price>> \in FloatBelow THEN 1 ELSE 0)

parse_browsing_deal(deal) ==
    LET current == Get(deal, "current", <<0, 0>>)
        current_price == current[1]
        list_price == current[2]
        discount_percent == browsing_discount(current_price, list_price)
        rating == rating10_of(deal)
        review_count == Get(deal, "reviewCount", 0)
    IN  IF current_price = 0 \/ list_price = 0 \/ list_price <= current_price THEN <<>>
        ELSE IF discount_percent < MIN_DISCOUNT THEN <<>>
        ELSE IF below_quality(rating, review_count) THEN <<>>
        ELSE << [asin |-> Get(deal, "asin", None),
                 current_price |-> current_price,
                 list_price |-> list_price,
                 discount_percent |-> discount_percent,
                 rating |-> rating,
                 review_count |-> review_count,
                 is_lightning |-> FALSE,
                 hours_left |-> 0] >>

RECURSIVE _parse_browsing_deals(_)
_parse_browsing_deals(raw_deals) ==
    IF raw_deals = <<>> THEN <<>>
    ELSE parse_browsing_deal(Head(raw_deals)) \o _parse_browsing_deals(Tail(raw_deals))

\* KeepaClient.fetch_lightning_deals: any exception of the request (HTTP
\* status, timeout, malformed JSON) is caught and gives [].
fetch_lightning_deals(resp) ==
    IF resp.error THEN <<>> ELSE _parse_lightning_deals(resp.deals, clock)

fetch_browsing_deals(resp) ==
    IF resp.error THEN <<>> ELSE _parse_browsing_deals(resp.deals)

---------------------------------------------------------------------------
(* Selector *)

\* score(deal), in tenths of a point:
\* discount*0.4 + rating*5 + min(review_count/10, 50) + 20 (lightning) + 30 (under 3 h left)
\* The code adds doubles: two deals whose tenths are equal can get sums that
\* differ in the last bit.  On the deals of this model the doubles compare as
\* the tenths do.
score(deal) ==
    deal.discount_percent * 4
    + deal.rating * 5
    + Min(deal.review_count, 500)
    + (IF deal.is_lightning THEN 200 ELSE 0)
    + (IF deal.is_lightning /\ deal.hours_left # 0 /\ deal.hours_left < 3 THEN 300 ELSE 0)

\* One step of sorted(deals, key=score, reverse=True): the sort is stable, so
\* a deal goes after every deal already placed whose score is not smaller.
\* Faulty variant: an unstable sort, a deal goes before the deals of equal score.
RECURSIVE insert_by_score_unstable(_, _)
insert_by_score_unstable(sorted, deal) ==
    IF sorted = <<>> THEN <<deal>>
    ELSE IF score(Head(sorted)) > score(deal)
         THEN <<Head(sorted)>> \o insert_by_score_unstable(Tail(sorted), deal)
         ELSE <<deal>> \o sorted

RECURSIVE insert_by_score(_, _)
insert_by_score(sorted, deal) ==
    IF sorted = <<>> THEN <<deal>>
    ELSE IF score(Head(sorted)) >= score(deal)
         THEN <<Head(sorted)>> \o insert_by_score(Tail(sorted), deal)
         ELSE <<deal>> \o sorted

\* Faulty variant: the list is not sorted.
deals_sorted_not(deals) == deals

RECURSIVE deals_sorted(_)
deals_sorted(deals) ==
    IF deals = <<>> THEN <<>>
    ELSE insert_by_score(deals_sorted(SubSeq(deals, 1, Len(deals) - 1)), deals[Len(deals)])

\* for deal in deals_sorted: if not is_product_posted(deal['asin'], hours=48): return deal
\* <<>> stands for None.
\* Faulty variant: when every deal is posted the best one is returned all the same.
RECURSIVE first_not_posted_or_best(_, _, _)
first_not_posted_or_best(sorted, rows, localnow) ==
    IF sorted = <<>> THEN <<>>
    ELSE IF ~is_product_posted_at(rows, Head(sorted).asin, COOLDOWN_HOURS, localnow)
            \/ Len(sorted) = 1
         THEN <<Head(sorted)>>
         ELSE first_not_posted_or_best(Tail(sorted), rows, localnow)

RECURSIVE first_not_posted(_, _, _)
first_not_posted(sorted, rows, localnow) ==
    IF sorted = <<>> THEN <<>>
    ELSE IF ~is_product_posted_at(rows, Head(sorted).asin, COOLDOWN_HOURS, localnow)
         THEN <<Head(sorted)>>
         ELSE first_not_posted(Tail(sorted), rows, localnow)

select_best_deal_at(deals, rows, localnow) ==
    first_not_posted(deals_sorted(deals), rows, localnow)

select_best_deal(deals) == select_best_deal_at(deals, posted_products, LocalNow)

\* The asins select_best_deal asks the ledger about, in order.
RECURSIVE ledger_reads(_, _, _)
ledger_reads(sorted, rows, localnow) ==
    IF sorted = <<>> THEN <<>>
    ELSE IF ~is_product_posted_at(rows, Head(sorted).asin, COOLDOWN_HOURS, localnow)
         THEN <<Head(sorted).asin>>
         ELSE <<Head(sorted).asin>> \o ledger_reads(Tail(sorted), rows, localnow)

---------------------------------------------------------------------------
(* What the environment can answer *)

ASINS == {"A", "B", "P", "E"}

\* Flash feed: A scores 200 + 50*4 + 45*5 + 200 = 825, B scores 200 + 30*4 + 40*5 + 60 = 580;
\* the third record is not AVAILABLE and the fourth has too few reviews.
LightningFeed ==
    << [asin |-> "B", dealState |-> "AVAILABLE", dealPrice |-> 1400, currentPrice |-> 2000,
        percentOff |-> 30, rating |-> 40, totalReviews |-> 60, endTime |-> 0],
       [asin |-> "A", dealState |-> "AVAILABLE", dealPrice |-> 2000, currentPrice |-> 4000,
        percentOff |-> 50, rating |-> 45, totalReviews |-> 200, endTime |-> 0],
       [asin |-> "A", dealState |-> "EXPIRED", dealPrice |-> 2000, currentPrice |-> 4000,
        percentOff |-> 50, rating |-> 45, totalReviews |-> 200, endTime |-> 0],
       [asin |-> "B", dealState |-> "WAITLIST", dealPrice |-> 1400, currentPrice |-> 2000,
        percentOff |-> 30, rating |-> 40, totalReviews |-> 2, endTime |-> 0] >>

\* Browse feeds, one per channel: prices are <<current, reference>>.
BrowsingFeed(channel) ==
    IF channel = "tech"
    THEN << [asin |-> "A", current |-> <<1000, 2000>>, rating |-> 45, reviewCount |-> 50],
            [asin |-> "B", current |-> <<1000, 2000>>, rating |-> 45, reviewCount |-> 2] >>
    ELSE << [asin |-> "B", current |-> <<3000, 4000>>, rating |-> 40, reviewCount |-> 80] >>

Failure == [error |-> TRUE, deals |-> <<>>]

LightningResponses == {Failure, [error |-> FALSE, deals |-> <<>>],
                       [error |-> FALSE, deals |-> LightningFeed]}

BrowsingResponses(channel) == {Failure, [error |-> FALSE, deals |-> <<>>],
                               [error |-> FALSE, deals |-> BrowsingFeed(channel)]}

\* What Keepa may answer beyond the feeds above.  Flash: a good record (A), one
\* at 1.00 EUR (P), one without asin, then records the thresholds reject: 14 %
\* off, rating 3.4, 9 reviews, no rating, no review count.
AnyLightningFeed ==
    << [asin |-> "A", dealState |-> "AVAILABLE", dealPrice |-> 2000, currentPrice |-> 4000,
        percentOff |-> 50, rating |-> 45, totalReviews |-> 200, endTime |-> 0],
       [asin |-> "P", dealState |-> "AVAILABLE", dealPrice |-> 100, currentPrice |-> 400,
        percentOff |-> 75, rating |-> 45, totalReviews |-> 200, endTime |-> 0],
       [dealState |-> "AVAILABLE", dealPrice |-> 1400, currentPrice |-> 2000,
        percentOff |-> 30, rating |-> 40, totalReviews |-> 60, endTime |-> 0],
       [asin |-> "B", dealState |-> "AVAILABLE", dealPrice |-> 1720, currentPrice |-> 2000,
        percentOff |-> MIN_DISCOUNT - 1, rating |-> 45, totalReviews |-> 200, endTime |-> 0],
       [asin |-> "B", dealState |-> "AVAILABLE", dealPrice |-> 1400, currentPrice |-> 2000,
        percentOff |-> 30, rating |-> MIN_RATING10 - 1, totalReviews |-> 200, endTime |-> 0],
       [asin |-> "B", dealState |-> "AVAILABLE", dealPrice |-> 1400, currentPrice |-> 2000,
        percentOff |-> 30, rating |-> 45, totalReviews |-> MIN_REVIEWS - 1, endTime |-> 0],
       [asin |-> "B", dealState |-> "AVAILABLE", dealPrice |-> 1400, currentPrice |-> 2000,
        percentOff |-> 30, totalReviews |-> 200, endTime |-> 0],
       [asin |-> "B", dealState |-> "AVAILABLE", dealPrice |-> 1400, currentPrice |-> 2000,
        percentOff |-> 30, rating |-> 45, endTime |-> 0] >>

\* Browse: a good record (B), one at 500.00 EUR (E), then records the
\* thresholds reject: 14 % off, rating 3.4, 9 reviews, no rating, no review count.
AnyBrowsingFeed ==
    << [asin |-> "B", current |-> <<3000, 4000>>, rating |-> 40, reviewCount |-> 80],
       [asin |-> "E", current |-> <<50000, 100000>>, rating |-> 45, reviewCount |-> 300],
       [asin |-> "A", current |-> <<8600, 10000>>, rating |-> 45, reviewCount |-> 200],
       [asin |-> "A", current |-> <<1000, 2000>>, rating |-> MIN_RATING10 - 1, reviewCount |-> 200],
       [asin |-> "A", current |-> <<1000, 2000>>, rating |-> 45, reviewCount |-> MIN_REVIEWS - 1],
       [asin |-> "A", current |-> <<1000, 2000>>, reviewCount |-> 200],
       [asin |-> "A", current |-> <<1000, 2000>>, rating |-> 45] >>

AnyResponses(use_lightning) ==
    {Failure, [error |-> FALSE,
               deals |-> IF use_lightning THEN AnyLightningFeed ELSE AnyBrowsingFeed]}

\* The database calls of a cycle; each may raise sqlite3.Error.
StoreCalls == {"get_cached_data", "cache_data", "is_product_posted", "mark_as_posted"}

---------------------------------------------------------------------------
(* The cycle *)

Ev(op, arg) == [op |-> op, arg |-> arg]

Count(events, op) == Cardinality({i \in 1..Len(events) : events[i].op = op})

Args(events, op) == {events[i].arg : i \in {j \in 1..Len(events) : events[j].op = op}}

BrowsingKey(channel) == IF channel = "tech" THEN "browsing_tech" ELSE "browsing_moda"

\* Faulty variant: the window is closed at its end, START_HOUR <= hour <= END_HOUR.
in_active_hours_inclusive(hour) == START_HOUR <= hour /\ hour <= END_HOUR

\* if not (START_HOUR <= now.hour < END_HOUR): return
in_active_hours(hour) == START_HOUR <= hour /\ hour < END_HOUR

\* VucciaroSystem.get_next_channel
get_next_channel == channel_rotation[current_channel_index + 1]

\* Faulty variant: the index is not advanced.
next_channel_index_stuck == current_channel_index

next_channel_index == (current_channel_index + 1) % Len(channel_rotation)

\* Faulty variant: the other mode's endpoint is asked as well.
keepa_requests_both(use_lightning) ==
    <<Ev("http", IF use_lightning THEN "lightningdeal" ELSE "deal"),
      Ev("http", IF use_lightning THEN "deal" ELSE "lightningdeal")>>

\* The one upstream request of a cycle: self.keepa.fetch_lightning_deals() or
\* self.keepa.fetch_browsing_deals(category_ids), by the mode drawn.
keepa_requests(use_lightning) ==
    <<Ev("http", IF use_lightning THEN "lightningdeal" ELSE "deal")>>

\* Faulty variant: the result of a fetch is cached even when it is empty.
cache_after_fetch_always(cache, cache_key, deals) == cache_data(cache, cache_key, deals)

\* if deals: cache_data(cache_key, deals)
cache_after_fetch(cache, cache_key, deals) ==
    IF deals # <<>> THEN cache_data(cache, cache_key, deals) ELSE cache

\* VucciaroSystem.fetch_deals_for_channel: [raised, deals, cache, events]
fetch_deals_for_channel(channel, use_lightning, resp, fault) ==
    LET cache_key == IF use_lightning THEN "lightning_deals" ELSE BrowsingKey(channel)
        max_age == IF use_lightning THEN LIGHTNING_TTL_HALF_HOURS ELSE BROWSING_TTL_HALF_HOURS
        cached == get_cached_data(keepa_cache, cache_key, max_age)
        deals == IF use_lightning THEN fetch_lightning_deals(resp) ELSE fetch_browsing_deals(resp)
        get == <<Ev("cache_get", cache_key)>>
        http == keepa_requests(use_lightning)
        put == <<Ev("cache_put", cache_key)>>
    IN  IF ~use_lightning /\ CATEGORY_MAP[channel] = <<>>
        THEN [raised |-> FALSE, deals |-> <<>>, cache |-> keepa_cache, events |-> <<>>]
        ELSE IF fault = "get_cached_data"
        THEN [raised |-> TRUE, deals |-> <<>>, cache |-> keepa_cache, events |-> get]
        ELSE IF cached # <<>>
        THEN [raised |-> FALSE, deals |-> cached, cache |-> keepa_cache, events |-> get]
        ELSE IF deals = <<>>
        THEN [raised |-> FALSE, deals |-> <<>>,
              cache |-> cache_after_fetch(keepa_cache, cache_key, deals),
              events |-> get \o http]
        ELSE IF fault = "cache_data"
        THEN [raised |-> TRUE, deals |-> <<>>, cache |-> keepa_cache,
              events |-> get \o http \o put]
        ELSE [raised |-> FALSE, deals |-> deals,
              cache |-> cache_after_fetch(keepa_cache, cache_key, deals),
              events |-> get \o http \o put]

ReadEvents(asins) == [i \in 1..Len(asins) |-> Ev("ledger_get", asins[i])]

\* Faulty variant: the product is recorded whatever send_deal returned.
rows_after_send_unchecked(asin, sent) == mark_as_posted(posted_products, asin, clock)

\* if self.telegram.send_deal(deal, channel): mark_as_posted(deal['asin'], ...)
rows_after_send(asin, sent) ==
    IF sent THEN mark_as_posted(posted_products, asin, clock) ELSE posted_products

\* Faulty variant: a failed send is tried once more.
send_attempts_retry(asin, sent) ==
    IF sent THEN <<Ev("send", asin)>> ELSE <<Ev("send", asin), Ev("send", asin)>>

\* self.telegram.send_deal(deal, channel): one call, whatever it returns
send_attempts(asin, sent) == <<Ev("send", asin)>>

\* The part of publish_next_deal after the fetch: select, send, record.
\* [outcome, asin, deal, rows, events]
select_and_publish(deals, sent, fault) ==
    LET sorted == deals_sorted(deals)
        deal == select_best_deal(deals)
        reads == ReadEvents(ledger_reads(sorted, posted_products, LocalNow))
        asin == deal[1].asin
        send == send_attempts(asin, sent)
    IN  IF deals = <<>>
        THEN [outcome |-> "no_deals", asin |-> None, deal |-> <<>>, rows |-> posted_products, events |-> <<>>]
        ELSE IF fault = "is_product_posted"
        THEN [outcome |-> "raised", asin |-> None, deal |-> <<>>, rows |-> posted_products,
              events |-> <<Ev("ledger_get", sorted[1].asin)>>]
        ELSE IF deal = <<>>
        THEN [outcome |-> "all_posted", asin |-> None, deal |-> <<>>, rows |-> posted_products,
              events |-> reads]
        ELSE IF ~sent
        THEN [outcome |-> "publish_failed", asin |-> asin, deal |-> deal,
              rows |-> rows_after_send(asin, sent), events |-> reads \o send]
        ELSE IF fault = "mark_as_posted"
        THEN [outcome |-> "published_raised", asin |-> asin, deal |-> deal,
              rows |-> posted_products,
              events |-> reads \o send \o <<Ev("ledger_put", asin)>>]
        ELSE [outcome |-> "published", asin |-> asin, deal |-> deal,
              rows |-> rows_after_send(asin, sent),
              events |-> reads \o send \o <<Ev("ledger_put", asin)>>]

Raised(outcome) == outcome \in {"raised", "published_raised"}

Published(outcome) == outcome \in {"published", "published_raised"}

\* Faulty variant: an empty list of deals raises (deals[0]) instead of returning.
pc_after_raising(outcome) ==
    IF pc = "first" /\ (Raised(outcome) \/ outcome = "no_deals") THEN "crashed" ELSE "loop"

\* main(): the first cycle runs outside the loop's try/except, the later ones
\* under schedule.run_pending() inside it.
pc_after(outcome) == IF pc = "first" /\ Raised(outcome) THEN "crashed" ELSE "loop"

Push(seq, x) == IF Len(seq) < Cardinality(CHANNELS) THEN Append(seq, x) ELSE Append(Tail(seq), x)

\* VucciaroSystem.publish_next_deal, one whole run of it
publish_next_deal(use_lightning, resp, sent, fault) ==
    /\ pc \in {"first", "loop"}
    /\ IF ~in_active_hours(LocalHour)
       THEN /\ last' = [outcome |-> "off_hours", channel |-> None, lightning |-> FALSE,
                        asin |-> None, deal |-> <<>>, gap |-> Never,
                        first |-> pc = "first", events |-> <<Ev("gate", "closed")>>]
            /\ pc' = "loop"
            /\ UNCHANGED <<posted_products, keepa_cache, current_channel_index,
                           recent, published>>
       ELSE \E channel \in {get_next_channel} :
            \E F \in {fetch_deals_for_channel(channel, use_lightning, resp, fault)} :
            \E P \in {IF F.raised
                      THEN [outcome |-> "raised", asin |-> None, deal |-> <<>>,
                            rows |-> posted_products, events |-> <<>>]
                      ELSE select_and_publish(F.deals, sent, fault)} :
                /\ current_channel_index' = next_channel_index
                /\ recent' = Push(recent, channel)
                /\ keepa_cache' = F.cache
                /\ posted_products' = P.rows
                /\ published' = IF Published(P.outcome)
                                THEN [published EXCEPT ![P.asin] = clock]
                                ELSE published
                /\ last' = [outcome |-> P.outcome, channel |-> channel,
                            lightning |-> use_lightning, asin |-> P.asin, deal |-> P.deal,
                            gap |-> IF Published(P.outcome) /\ published[P.asin] # Never
                                    THEN clock - published[P.asin] ELSE Never,
                            first |-> pc = "first",
                            events |-> <<Ev("gate", "open"), Ev("rotate", channel)>>
                                       \o F.events \o P.events]
                /\ pc' = pc_after(P.outcome)
    /\ UNCHANGED <<clock, tz, channel_rotation, ticks, sel, norm, inst>>

Responses(use_lightning) ==
    IF use_lightning THEN LightningResponses ELSE BrowsingResponses(get_next_channel)

\* A cycle in which every database call succeeds.
Cycle ==
    \E use_lightning \in BOOLEAN, sent \in BOOLEAN :
        \E resp \in Responses(use_lightning) :
            /\ publish_next_deal(use_lightning, resp, sent, "none")
            /\ UNCHANGED limited

\* A cycle in which one database call raises sqlite3.Error.
FaultyCycle ==
    \E use_lightning \in BOOLEAN, sent \in BOOLEAN, fault \in StoreCalls :
        \E resp \in Responses(use_lightning) :
            /\ publish_next_deal(use_lightning, resp, sent, fault)
            /\ UNCHANGED limited

\* A cycle in which Keepa answers with any of the records above.
AnyFeedCycle ==
    \E use_lightning \in BOOLEAN, sent \in BOOLEAN :
        \E resp \in AnyResponses(use_lightning) :
            /\ publish_next_deal(use_lightning, resp, sent, "none")
            /\ UNCHANGED limited

Endpoints == {"lightningdeal", "deal"}

\* The requests of a cycle noted per endpoint: a request to an endpoint
\* whose latest request had failed sets again, then failed is the new result.
limited_after(events, resp) ==
    [e \in Endpoints |->
        IF e \in Args(events, "http")
        THEN [failed |-> resp.error,
              again |-> limited[e].again \/ limited[e].failed]
        ELSE limited[e]]

\* A cycle, with the outcome of its request noted per endpoint.
NotedCycle ==
    \E use_lightning \in BOOLEAN, sent \in BOOLEAN :
        \E resp \in Responses(use_lightning) :
            /\ publish_next_deal(use_lightning, resp, sent, "none")
            /\ limited' = limited_after(last'.events, resp)

\* Time passes between two runs of the scheduler.
Tick ==
    /\ ticks < MaxTicks
    /\ \E d \in TickSteps : clock' = clock + d
    /\ ticks' = ticks + 1
    /\ UNCHANGED <<tz, pc, posted_products, keepa_cache, channel_rotation,
                   current_channel_index, last, recent, published, sel, norm, inst, limited>>

Rotations == {r \in [1..Cardinality(CHANNELS) -> CHANNELS] : Range(r) = CHANNELS}

\* The process is started again: main() runs init_database (CREATE TABLE IF
\* NOT EXISTS: the tables keep their rows) and builds a new VucciaroSystem.
Restart ==
    /\ pc = "crashed"
    /\ pc' = "first"
    /\ channel_rotation' \in Rotations
    /\ current_channel_index' = 0
    /\ recent' = <<>>
    /\ UNCHANGED <<clock, tz, posted_products, keepa_cache, ticks, last, published, sel, norm, inst, limited>>

\* Faulty variant: the tables are dropped and created again.
init_database_fresh(rows) == {}

\* init_database: CREATE TABLE IF NOT EXISTS posted_products / keepa_cache,
\* an existing table keeps its rows.
init_database(rows) == rows

MaxRestarts == 1

Downtimes == {0} \cup TickSteps

\* The process is stopped between two cycles and started again after some
\* downtime: main() runs init_database and builds a new VucciaroSystem.
StopAndStart ==
    /\ pc = "loop"
    /\ ticks < MaxRestarts
    /\ pc' = "first"
    /\ \E d \in Downtimes : clock' = clock + d
    /\ ticks' = ticks + 1
    /\ posted_products' = init_database(posted_products)
    /\ channel_rotation' \in Rotations
    /\ current_channel_index' = 0
    /\ recent' = <<>>
    /\ UNCHANGED <<tz, keepa_cache, last, published, sel, norm, inst, limited>>

NoCycle == [outcome |-> "none", channel |-> None, lightning |-> FALSE, asin |-> None,
            deal |-> <<>>,
            gap |-> Never, first |-> FALSE, events |-> <<>>]

NoSel == [deals |-> <<>>, rows |-> {}, now |-> 0, calls |-> 0, results |-> <<>>,
          deals0 |-> <<>>, rows0 |-> {}]

NoNorm == [mode |-> None, raw |-> <<>>, out |-> <<>>, done |-> FALSE]

NoInst == <<>>

NoLimited == [e \in Endpoints |-> [failed |-> FALSE, again |-> FALSE]]

Init ==
    /\ clock = ClockStart
    /\ tz \in TzOffsets
    /\ pc = "first"
    /\ posted_products = {}
    /\ keepa_cache = [k \in CacheKeys |-> <<>>]
    /\ channel_rotation \in Rotations
    /\ current_channel_index = 0
    /\ ticks = 0
    /\ last = NoCycle
    /\ recent = <<>>
    /\ published = [a \in ASINS \cup {None} |-> Never]
    /\ sel = NoSel
    /\ norm = NoNorm
    /\ inst = NoInst
    /\ limited = NoLimited

Next == Cycle \/ Tick

Spec == Init /\ [][Next]_vars

\* The scheduler loop with restarts of the process between cycles; time
\* passes while the process is down.
NextRestarts == Cycle \/ StopAndStart

SpecRestarts == Init /\ [][NextRestarts]_vars

\* The same, on whatever records Keepa returns.
NextAnyFeedRestarts == AnyFeedCycle \/ StopAndStart

SpecAnyFeedRestarts == Init /\ [][NextAnyFeedRestarts]_vars

\* The scheduler loop at one instant, Keepa failing (rate limit, HTTP error)
\* or answering at each request.
NextLimited == NotedCycle

SpecLimited == Init /\ [][NextLimited]_vars

\* The scheduler loop under store errors, at one instant.
NextFaults == Cycle \/ FaultyCycle \/ Restart

SpecFaults == Init /\ [][NextFaults]_vars

\* The cycle on whatever records Keepa returns, at one instant.
NextAnyFeed == AnyFeedCycle

SpecAnyFeed == Init /\ [][NextAnyFeed]_vars

---------------------------------------------------------------------------
(* The selector alone: select_best_deal called on a list, twice *)

MaxDeals == 3
MaxCalls == 2

Deal(asin, discount, rating, reviews, lightning, hours) ==
    [asin |-> asin, current_price |-> 1000, list_price |-> 2000,
     discount_percent |-> discount, rating |-> rating, review_count |-> reviews,
     is_lightning |-> lightning, hours_left |-> hours]

\* Scores: 380 (A), 380 (B, larger discount), 380 (C, larger discount still),
\* 625 (A again), 893 (B, flash with under 3 hours left), 445 (C again).
DealPool ==
    { Deal("A", 20, 40, 100, FALSE, 0),
      Deal("B", 30, 40, 60, FALSE, 0),
      Deal("C", 40, 40, 20, FALSE, 0),
      Deal("A", 50, 45, 200, FALSE, 0),
      Deal("B", 17, 45, 100, TRUE, 2),
      Deal("C", 30, 45, 100, FALSE, 0) }

SelNow == 2 * COOLDOWN_HOURS

\* Ledgers: each of A, B unrecorded, recorded an hour ago, or recorded a cooldown ago.
SelLedgers ==
    { {[asin |-> a, posted_at |-> SelNow - (IF f[a] = "recent" THEN 1 ELSE COOLDOWN_HOURS)] :
          a \in {x \in {"A", "B"} : f[x] # "never"}} :
      f \in [{"A", "B"} -> {"never", "recent", "old"}] }

SeqsUpTo(S, n) == UNION {[1..k -> S] : k \in 0..n}

\* Faulty variant: deals.sort(key=score, reverse=True), the argument is sorted in place.
deals_after_select_in_place(deals) == deals_sorted(deals)

\* deals_sorted = sorted(deals, ...) builds a new list: the argument is as it was.
deals_after_select(deals) == deals

\* is_product_posted only SELECTs: the table is as it was.
rows_after_select(rows, deals) == rows

SelectCall ==
    /\ sel.calls < MaxCalls
    /\ sel' = [sel EXCEPT
                 !.calls = @ + 1,
                 !.results = Append(@, select_best_deal_at(sel.deals, sel.rows, sel.now)),
                 !.deals = deals_after_select(sel.deals),
                 !.rows = rows_after_select(sel.rows, sel.deals)]
    /\ UNCHANGED <<clock, tz, pc, posted_products, keepa_cache, channel_rotation,
                   current_channel_index, ticks, last, recent, published, norm, inst, limited>>

InitSelect ==
    /\ clock = ClockStart
    /\ tz = 0
    /\ pc = "first"
    /\ posted_products = {}
    /\ keepa_cache = [k \in CacheKeys |-> <<>>]
    /\ channel_rotation \in Rotations
    /\ current_channel_index = 0
    /\ ticks = 0
    /\ last = NoCycle
    /\ recent = <<>>
    /\ published = [a \in ASINS \cup {None} |-> Never]
    /\ \E deals \in SeqsUpTo(DealPool, MaxDeals), rows \in SelLedgers :
          sel = [deals |-> deals, rows |-> rows, now |-> SelNow, calls |-> 0,
                 results |-> <<>>, deals0 |-> deals, rows0 |-> rows]
    /\ norm = NoNorm
    /\ inst = NoInst
    /\ limited = NoLimited

NextSelect == SelectCall

SpecSelect == InitSelect /\ [][NextSelect]_vars

---------------------------------------------------------------------------
(* Two processes of the bot on one vucciaro.db.  Each database call opens a  *)
(* connection, runs one statement and commits: a statement is one step.     *)

Instances == {"one", "two"}

Idle == [at |-> "idle", todo |-> <<>>, deal |-> <<>>, pub |-> None]

\* publish_next_deal up to the sorted list of select_best_deal
Begin(p) ==
    /\ inst[p].at = "idle"
    /\ in_active_hours(LocalHour)
    /\ \E resp \in LightningResponses :
         \E deals \in {deals_sorted(fetch_lightning_deals(resp))} :
            /\ deals # <<>>
            /\ inst' = [inst EXCEPT ![p].at = "selecting", ![p].todo = deals]
    /\ UNCHANGED <<clock, tz, pc, posted_products, keepa_cache, channel_rotation,
                   current_channel_index, ticks, last, recent, published, sel, norm, limited>>

\* One turn of the loop of select_best_deal: one SELECT on posted_products
CheckPosted(p) ==
    /\ inst[p].at = "selecting"
    /\ inst' = IF ~is_product_posted(Head(inst[p].todo).asin, COOLDOWN_HOURS)
               THEN [inst EXCEPT ![p].at = "selected", ![p].deal = <<Head(inst[p].todo)>>,
                                 ![p].todo = <<>>]
               ELSE IF Tail(inst[p].todo) = <<>>
               THEN [inst EXCEPT ![p].at = "idle", ![p].todo = <<>>]
               ELSE [inst EXCEPT ![p].todo = Tail(@)]
    /\ UNCHANGED <<clock, tz, pc, posted_products, keepa_cache, channel_rotation,
                   current_channel_index, ticks, last, recent, published, sel, norm, limited>>

\* self.telegram.send_deal(deal, channel)
Send(p) ==
    /\ inst[p].at = "selected"
    /\ \E sent \in BOOLEAN :
         IF sent
         THEN /\ inst' = [inst EXCEPT ![p].at = "sent", ![p].pub = inst[p].deal[1].asin]
              /\ published' = [published EXCEPT ![inst[p].deal[1].asin] = clock]
         ELSE /\ inst' = [inst EXCEPT ![p].at = "idle", ![p].deal = <<>>]
              /\ published' = published
    /\ UNCHANGED <<clock, tz, pc, posted_products, keepa_cache, channel_rotation,
                   current_channel_index, ticks, last, recent, sel, norm, limited>>

\* mark_as_posted(deal['asin'], ...): one INSERT OR REPLACE, committed
Mark(p) ==
    /\ inst[p].at = "sent"
    /\ posted_products' = mark_as_posted(posted_products, inst[p].deal[1].asin, clock)
    /\ inst' = [inst EXCEPT ![p].at = "idle", ![p].deal = <<>>]
    /\ UNCHANGED <<clock, tz, pc, keepa_cache, channel_rotation,
                   current_channel_index, ticks, last, recent, published, sel, norm, limited>>

InitInstances ==
    /\ clock = ClockStart
    /\ tz \in TzOffsets
    /\ pc = "loop"
    /\ posted_products = {}
    /\ keepa_cache = [k \in CacheKeys |-> <<>>]
    /\ channel_rotation \in Rotations
    /\ current_channel_index = 0
    /\ ticks = 0
    /\ last = NoCycle
    /\ recent = <<>>
    /\ published = [a \in ASINS \cup {None} |-> Never]
    /\ sel = NoSel
    /\ norm = NoNorm
    /\ inst = [p \in Instances |-> Idle]
    /\ limited = NoLimited

NextInstances ==
    \/ \E p \in Instances : Begin(p) \/ CheckPosted(p) \/ Send(p) \/ Mark(p)
    \/ Tick

SpecInstances == InitInstances /\ [][NextInstances]_vars

---------------------------------------------------------------------------
(* The parsers alone: one raw Keepa record, any field present or not *)

Missing == 0 - 999

\* The record without the fields that are missing (or null) in the JSON.
Drop(r) == [k \in {x \in DOMAIN r : r[x] # Missing} |-> r[k]]

DropAsin(r) == [k \in {x \in DOMAIN r : x # "asin" \/ r[x] # None} |-> r[k]]

RawAsins == {None, "", "A"}
RawPrices == {Missing, 0 - 1, 0, 100, 2000}
RawListPrices == {0 - 1, 0, 4000}
RawPercents == {Missing, 0 - 5, MIN_DISCOUNT - 1, MIN_DISCOUNT, 50, 100, 150}
RawRatings == {Missing, 0, MIN_RATING10 - 1, MIN_RATING10, 45}
RawReviews == {Missing, MIN_REVIEWS - 1, MIN_REVIEWS, 200}
RawCurrent == {0 - 1, 0, 1000, 7100}
RawReference == {0 - 1, 0, 1000, 3000, 10000}

RawLightning ==
    { DropAsin([asin |-> a, dealState |-> st] @@
               Drop([dealPrice |-> dp, currentPrice |-> cp, percentOff |-> po,
                     rating |-> ra, totalReviews |-> rv, endTime |-> 0])) :
        a \in RawAsins, st \in {"AVAILABLE", "WAITLIST", "EXPIRED"}, dp \in RawPrices,
        cp \in RawListPrices, po \in RawPercents, ra \in RawRatings, rv \in RawReviews }

RawBrowsing ==
    { DropAsin([asin |-> a, current |-> <<c, l>>] @@
               Drop([rating |-> ra, reviewCount |-> rv])) :
        a \in RawAsins, c \in RawCurrent, l \in RawReference,
        ra \in RawRatings, rv \in RawReviews }

\* KeepaClient._parse_lightning_deals / _parse_browsing_deals on a list of one record
Normalize ==
    /\ ~norm.done
    /\ norm' = [norm EXCEPT
                  !.out = IF norm.mode = "lightning"
                          THEN _parse_lightning_deals(<<norm.raw>>, clock)
                          ELSE _parse_browsing_deals(<<norm.raw>>),
                  !.done = TRUE]
    /\ UNCHANGED <<clock, tz, pc, posted_products, keepa_cache, channel_rotation,
                   current_channel_index, ticks, last, recent, published, sel, inst, limited>>

InitParse ==
    /\ clock = ClockStart
    /\ tz = 0
    /\ pc = "first"
    /\ posted_products = {}
    /\ keepa_cache = [k \in CacheKeys |-> <<>>]
    /\ channel_rotation \in Rotations
    /\ current_channel_index = 0
    /\ ticks = 0
    /\ last = NoCycle
    /\ recent = <<>>
    /\ published = [a \in ASINS \cup {None} |-> Never]
    /\ sel = NoSel
    /\ inst = NoInst
    /\ limited = NoLimited
    /\ \/ \E raw \in RawLightning :
             norm = [mode |-> "lightning", raw |-> raw, out |-> <<>>, done |-> FALSE]
       \/ \E raw \in RawBrowsing :
             norm = [mode |-> "browsing", raw |-> raw, out |-> <<>>, done |-> FALSE]

NextParse == Normalize

SpecParse == InitParse /\ [][NextParse]_vars

---------------------------------------------------------------------------
(* Reading the record of a cycle *)

Attempted == last.outcome \notin {"none", "off_hours"}

\* A step that is one run of publish_next_deal.
CycleStep ==
    /\ ticks' = ticks
    /\ pc' # "first"
    /\ (last' # last \/ current_channel_index' # current_channel_index)

Eligible(asin) == ~is_product_posted(asin, COOLDOWN_HOURS)

\* The candidates the cache holds.
Cached == UNION {Range(keepa_cache[k][1].data) : k \in {x \in CacheKeys : keepa_cache[x] # <<>>}}

---------------------------------------------------------------------------
(* Claims *)

\* C1: the same asin is never published twice with less than the cooldown
\* (48 hours) between the two publications.
C1_NoRepublishWithinCooldown ==
    Published(last.outcome) => (last.gap = Never \/ last.gap >= COOLDOWN_HOURS)

\* C2: when the publish call for the selected candidate fails, the ledger is
\* left unchanged, the candidate stays eligible, and the cycle sends no other
\* candidate.
C2_FailedPublishLeavesLedger ==
    /\ [](last.outcome = "publish_failed" =>
            /\ Eligible(last.asin)
            /\ Count(last.events, "send") = 1
            /\ Count(last.events, "ledger_put") = 0)
    /\ [][(CycleStep /\ last'.outcome = "publish_failed") =>
            /\ posted_products' = posted_products
            /\ published' = published]_vars

C2_Witness ==
    /\ last.outcome = "publish_failed"
    /\ last.lightning
    /\ last.asin = "A"
    /\ posted_products # {}

\* C3: a product recorded at t is ineligible exactly while now - t < cooldown,
\* and a product never recorded is eligible.
C3_EligibilityMatchesCooldown ==
    /\ \A r \in posted_products : Eligible(r.asin) <=> (clock - r.posted_at >= COOLDOWN_HOURS)
    /\ \A a \in ASINS : (\A r \in posted_products : r.asin # a) => Eligible(a)

\* C4 (as claimed): a cycle that fetched candidates of which none is eligible
\* clears the ledger and publishes one of them in that same cycle.
C4_ResetAndRepublish ==
    last.outcome = "all_posted" =>
        /\ \A a \in Args(last.events, "ledger_get") : Eligible(a)
        /\ Count(last.events, "send") = 1

\* C4 (amended): a cycle that fetched candidates of which none is eligible
\* leaves the ledger as it is and sends nothing; a cycle sends only a
\* candidate that is eligible when the cycle runs.
C4_ExhaustedPoolIsNoOp ==
    /\ [](last.outcome = "all_posted" =>
            /\ Count(last.events, "send") = 0
            /\ Count(last.events, "ledger_put") = 0
            /\ Count(last.events, "ledger_get") >= 1)
    /\ [][CycleStep =>
            /\ (last'.outcome = "all_posted" =>
                  /\ posted_products' = posted_products
                  /\ \A a \in Args(last'.events, "ledger_get") : ~Eligible(a))
            /\ \A a \in Args(last'.events, "send") : Eligible(a)]_vars

C4_Witness ==
    /\ last.outcome = "all_posted"
    /\ Cardinality(Args(last.events, "ledger_get")) = 2

\* C5 (as claimed): a cycle whose primary mode yields nothing queries the
\* other mode before it ends as a no-op.
C5_FallbackModeQueried ==
    last.outcome = "no_deals" =>
        {"lightning_deals"} \subseteq Args(last.events, "cache_get")
        /\ Args(last.events, "cache_get") # {"lightning_deals"}

\* C5 (amended): every cycle reads the cache key of the one mode drawn and
\* makes at most one upstream request, to that mode's endpoint; when that
\* mode yields nothing the cycle ends as a no-op without asking the other.
C5_SingleModePerCycle ==
    Attempted =>
        /\ Args(last.events, "cache_get") =
              {IF last.lightning THEN "lightning_deals" ELSE BrowsingKey(last.channel)}
        /\ Count(last.events, "http") <= 1
        /\ Args(last.events, "http") \subseteq {IF last.lightning THEN "lightningdeal" ELSE "deal"}
        /\ (last.outcome = "no_deals" =>
              /\ Count(last.events, "http") = 1
              /\ Count(last.events, "send") = 0
              /\ Count(last.events, "ledger_get") = 0)

C5_Witness ==
    /\ last.outcome = "no_deals"
    /\ last.lightning
    /\ keepa_cache[BrowsingKey(last.channel)] # <<>>

\* C6: a cycle started outside START_HOUR <= hour < END_HOUR does nothing but
\* evaluate the gate, and every cycle evaluates the gate first.
C6_ActiveHoursGate ==
    /\ [](last.outcome # "none" => last.events[1].op = "gate")
    /\ [](last.outcome = "off_hours" => Len(last.events) = 1)
    /\ [][CycleStep =>
            IF START_HOUR <= LocalHour /\ LocalHour < END_HOUR
            THEN last'.outcome # "off_hours"
            ELSE /\ last'.outcome = "off_hours"
                 /\ UNCHANGED <<posted_products, keepa_cache, current_channel_index,
                                recent, published>>]_vars

C6_Witness ==
    /\ last.outcome = "off_hours"
    /\ posted_products # {}
    /\ keepa_cache["lightning_deals"] # <<>>

\* C7: the rotation index stays in [0, number of channels) and advances by
\* one, modulo the number of channels, in every cycle that passes the gate;
\* any N consecutive such cycles choose N different channels.
C7_ChannelRotation ==
    /\ [](/\ current_channel_index \in 0..(Cardinality(CHANNELS) - 1)
          /\ Len(recent) = Cardinality(CHANNELS) => Range(recent) = CHANNELS)
    /\ [][(CycleStep /\ last'.outcome # "off_hours") =>
            /\ current_channel_index' = (current_channel_index + 1) % Cardinality(CHANNELS)
            /\ last'.channel = channel_rotation[current_channel_index + 1]
            /\ recent' # recent]_vars

C7_Witness ==
    /\ Len(recent) = Cardinality(CHANNELS)
    /\ last.outcome = "publish_failed"
    /\ current_channel_index = 1

\* C8: no failure inside a cycle, the first cycle at startup included,
\* terminates the process.
C8_ProcessSurvivesCycleFailure == pc # "crashed"

\* What the selector was called on
SelEligible == {i \in 1..Len(sel.deals0) :
                  ~is_product_posted_at(sel.rows0, sel.deals0[i].asin, COOLDOWN_HOURS, sel.now)}

SelBest == {i \in SelEligible : \A j \in SelEligible : score(sel.deals0[j]) <= score(sel.deals0[i])}

SelFirst(S) == CHOOSE i \in S : \A j \in S : i <= j

\* C9 (as claimed): among the eligible candidates of maximal score the
\* selector returns the one of highest discount_percent, and among those of
\* equal discount the first in input order.
C9_TieBreakByDiscount ==
    (sel.calls >= 1 /\ SelBest # {}) =>
        LET top == {i \in SelBest : \A j \in SelBest :
                       sel.deals0[j].discount_percent <= sel.deals0[i].discount_percent}
        IN  sel.results[1] = <<sel.deals0[SelFirst(top)]>>

\* C9 (amended): among the eligible candidates of maximal score the selector
\* returns the first in input order, whatever their discounts; it returns
\* None when no candidate is eligible.
C9_TieBreakByInputOrder ==
    sel.calls >= 1 =>
        IF SelBest = {} THEN sel.results[1] = <<>>
        ELSE sel.results[1] = <<sel.deals0[SelFirst(SelBest)]>>

C9_Witness ==
    /\ sel.calls >= 1
    /\ Cardinality(SelBest) >= 2
    /\ \E i \in SelBest : sel.deals0[i].discount_percent >
                          sel.deals0[SelFirst(SelBest)].discount_percent
    /\ \E i \in 1..Len(sel.deals0) : i \notin SelEligible

C11_EmptyInputIsNoOp ==
    /\ [](select_best_deal(<<>>) = <<>>)
    /\ [](last.outcome \in {"no_deals", "all_posted"} =>
            /\ Count(last.events, "send") = 0
            /\ Count(last.events, "ledger_put") = 0)
    /\ [][(CycleStep /\ last'.outcome \in {"no_deals", "all_posted"}) =>
            /\ posted_products' = posted_products
            /\ published' = published
            /\ pc' = "loop"]_vars

C11_Witness ==
    /\ last.outcome = "no_deals"
    /\ last.first
    /\ ~last.lightning
    /\ Count(last.events, "http") = 1

\* C12: every candidate a parser gives has 0 <= discount_percent <= 100 and a
\* current price above zero, whatever integers the raw record holds.
C12_CandidateNumericInvariant ==
    \A i \in 1..Len(norm.out) :
        /\ 0 <= norm.out[i].discount_percent
        /\ norm.out[i].discount_percent <= 100
        /\ norm.out[i].current_price > 0

\* C13: a raw record without a product identifier, or with an empty one, gives
\* no candidate: every candidate kept, sent or recorded in the ledger has a
\* non-empty asin.
C13_ProductIdentifierPresent ==
    /\ \A d \in Cached : d.asin \notin {None, ""}
    /\ \A i \in 1..Len(last.deal) : last.deal[i].asin \notin {None, ""}
    /\ \A r \in posted_products : r.asin \notin {None, ""}

\* C14: no candidate is published whose current price is below MIN_PRICE or
\* above MAX_PRICE, whichever mode it came from.
C14_PriceBoundGate ==
    Published(last.outcome) =>
        /\ MIN_PRICE <= last.deal[1].current_price
        /\ last.deal[1].current_price <= MAX_PRICE

MeetsThresholds(d) ==
    /\ d.discount_percent >= MIN_DISCOUNT
    /\ d.rating >= MIN_RATING10
    /\ d.review_count >= MIN_REVIEWS

\* C15: every candidate kept, sent or published, from the flash or the browse
\* mode, fresh or from the cache, has discount >= MIN_DISCOUNT, rating >=
\* MIN_RATING and review count >= MIN_REVIEWS; a raw record without rating or
\* without review count gives no candidate.
C15_QualityThresholds ==
    /\ \A d \in Cached : MeetsThresholds(d)
    /\ \A i \in 1..Len(last.deal) : MeetsThresholds(last.deal[i])
    /\ \A i \in 1..Len(AnyLightningFeed) :
          {"rating", "totalReviews"} \ DOMAIN AnyLightningFeed[i] # {} =>
              parse_lightning_deal(AnyLightningFeed[i], clock) = <<>>
    /\ \A i \in 1..Len(AnyBrowsingFeed) :
          {"rating", "reviewCount"} \ DOMAIN AnyBrowsingFeed[i] # {} =>
              parse_browsing_deal(AnyBrowsingFeed[i]) = <<>>

\* A browse candidate published from the cache, the flash list cached as well.
C15_Witness ==
    /\ last.outcome = "published"
    /\ ~last.lightning
    /\ Count(last.events, "http") = 0
    /\ keepa_cache["lightning_deals"] # <<>>

\* round((reference - current) / reference * 100), in integers
RoundedPercent(current_price, list_price) ==
    ((list_price - current_price) * 200 + list_price) \div (2 * list_price)

\* C16: a browse record with 0 < current < reference gives a candidate whose
\* discount_percent is (reference - current) / reference * 100 rounded to the
\* nearest integer.
C16_BrowseDiscountRounded ==
    (norm.done /\ norm.mode = "browsing") =>
        \A i \in 1..Len(norm.out) :
            (0 < norm.raw.current[1] /\ norm.raw.current[1] < norm.raw.current[2]) =>
                norm.out[i].discount_percent =
                    RoundedPercent(norm.raw.current[1], norm.raw.current[2])

\* C17: a restart of the process between two cycles leaves every ledger row
\* as it was, so that for every product and every later time the eligibility
\* answer is the one the ledger gave without the restart.
C17_RestartKeepsLedger ==
    [][(pc = "loop" /\ pc' = "first") =>
         /\ posted_products' = posted_products
         /\ \A a \in ASINS : \A t \in {LocalNow', LocalNow' + 1, LocalNow' + COOLDOWN_HOURS} :
               is_product_posted_at(posted_products', a, COOLDOWN_HOURS, t)
               <=> is_product_posted_at(posted_products, a, COOLDOWN_HOURS, t)]_vars

\* Just started again after an hour of downtime, with two products on cooldown.
C17_Witness ==
    /\ pc = "first"
    /\ clock = ClockStart + 1
    /\ Cardinality(posted_products) = 2
    /\ \A r \in posted_products : is_product_posted(r.asin, COOLDOWN_HOURS)

\* C18: with two processes on the same database no ledger write is lost:
\* every product published by either has a row whose posted_at is not older
\* than its latest successful publish, or the write of that publish is still
\* to come.
C18_NoLostLedgerUpdate ==
    \A a \in ASINS :
        published[a] # Never =>
            \/ \E r \in posted_products : r.asin = a /\ r.posted_at >= published[a]
            \/ \E p \in Instances : inst[p].at = "sent" /\ inst[p].deal[1].asin = a

\* Both processes have published A, the second an hour or more after the
\* first, and both have finished their cycles.
C18_Witness ==
    /\ \A p \in Instances : inst[p] = [Idle EXCEPT !.pub = "A"]
    /\ published["A"] > ClockStart
    /\ Cardinality(posted_products) = 1

\* C19 (as claimed): after a request to an endpoint has failed, the following
\* cycles make no request to that endpoint while no time has passed.
C19_NoRequestAfterRateLimit ==
    \A e \in Endpoints : ~limited[e].again

\* C19 (amended): a cycle whose request fails ends as a no-op that sends
\* nothing and leaves cache and ledger as they are; no cooldown is kept: a
\* cycle requests the endpoint of its mode exactly when the cache holds no
\* fresh list under its key, whether or not the latest request failed.
C19_FailedFetchIsNoOpWithoutCooldown ==
    /\ [](\A e \in Args(last.events, "http") : limited[e].failed =>
            /\ last.outcome = "no_deals"
            /\ Count(last.events, "send") = 0
            /\ Count(last.events, "cache_put") = 0)
    /\ [][(CycleStep /\ last'.outcome # "off_hours") =>
            /\ Count(last'.events, "http") = 1
               <=> get_cached_data(keepa_cache,
                                   IF last'.lightning THEN "lightning_deals"
                                   ELSE BrowsingKey(last'.channel),
                                   IF last'.lightning THEN LIGHTNING_TTL_HALF_HOURS
                                   ELSE BROWSING_TTL_HALF_HOURS) = <<>>
            /\ (\E e \in Args(last'.events, "http") : limited'[e].failed) =>
                  /\ keepa_cache' = keepa_cache
                  /\ posted_products' = posted_products]_vars

\* A request failed, the endpoint was asked again at once, and failed again.
C19_Witness ==
    \E e \in Endpoints :
        /\ limited[e].again
        /\ limited[e].failed
        /\ e \in Args(last.events, "http")

\* C20: a cycle calls send at most once and publishes at most one candidate;
\* a ledger row is written only after the send of that same candidate has
\* succeeded in that cycle, and it is the only row the cycle changes.
C20_OnePublishThenRecord ==
    /\ [](/\ Count(last.events, "send") <= 1
          /\ Count(last.events, "ledger_put") <= 1
          /\ Count(last.events, "ledger_put") = 1 =>
                /\ last.outcome = "published"
                /\ last.events[Len(last.events) - 1] = Ev("send", last.asin)
                /\ last.events[Len(last.events)] = Ev("ledger_put", last.asin))
    /\ [][CycleStep =>
            /\ posted_products' # posted_products =>
                  /\ last'.outcome = "published"
                  /\ posted_products' =
                        {r \in posted_products : r.asin # last'.asin}
                        \cup {[asin |-> last'.asin, posted_at |-> clock]}
            /\ \A a \in ASINS : published'[a] # published[a] =>
                  last'.outcome = "published" /\ a = last'.asin]_vars

\* A browse candidate published for the second time: its row is replaced and
\* the row of the other product is as it was.
C20_Witness ==
    /\ last.outcome = "published"
    /\ ~last.lightning
    /\ last.gap # Never
    /\ Cardinality(posted_products) = 2

\* C21: the ledger holds one row per product identifier, and a cycle changes
\* at most one row, that of the candidate it published (created, or its
\* posted_at overwritten); a cycle that publishes nothing changes no row.
C21_LedgerFrame ==
    /\ [](\A r1, r2 \in posted_products : r1.asin = r2.asin => r1 = r2)
    /\ [][CycleStep =>
            \A r \in (posted_products' \ posted_products)
                     \cup (posted_products \ posted_products') :
                /\ last'.outcome = "published"
                /\ r.asin = last'.asin
                /\ [asin |-> last'.asin, posted_at |-> clock] \in posted_products']_vars

\* The candidates the ledger lets through, in input order.
SelEligibleDeals ==
    SelectSeq(sel.deals0,
              LAMBDA d : ~is_product_posted_at(sel.rows0, d.asin, COOLDOWN_HOURS, sel.now))

\* The score as the claim writes it, in tenths:
\* 0.4*discount_percent + 5*rating + min(review_count/10, 50) + flash bonus
ClaimedScore(deal) ==
    deal.discount_percent * 4 + deal.rating * 5 + Min(deal.review_count, 500)
    + (IF deal.is_lightning THEN 200 ELSE 0)

\* max(seq, key=...): the first element of maximal score, <<>> on an empty list
RECURSIVE FirstMaxClaimed(_)
FirstMaxClaimed(seq) ==
    IF seq = <<>> THEN <<>>
    ELSE LET rest == FirstMaxClaimed(Tail(seq))
         IN  IF rest = <<>> \/ ClaimedScore(Head(seq)) >= ClaimedScore(rest[1])
             THEN <<Head(seq)>> ELSE rest

RECURSIVE FirstMax(_)
FirstMax(seq) ==
    IF seq = <<>> THEN <<>>
    ELSE LET rest == FirstMax(Tail(seq))
         IN  IF rest = <<>> \/ score(Head(seq)) >= score(rest[1])
             THEN <<Head(seq)>> ELSE rest

\* C22 (as claimed): select_best_deal returns what filtering by the ledger and
\* then taking the maximum gives, the score being 0.4*discount + 5*rating +
\* min(reviews/10, 50) + flash bonus: no eligible candidate has a higher one.
C22_FilterThenMaxOfClaimedScore ==
    sel.calls >= 1 =>
        /\ sel.results[1] = FirstMaxClaimed(SelEligibleDeals)
        /\ \A i \in 1..Len(sel.results[1]) : \A j \in SelEligible :
              ClaimedScore(sel.deals0[j]) <= ClaimedScore(sel.results[1][i])

\* C22 (amended): the same with the score the code computes, which adds 30
\* to a flash deal with less than 3 hours left: the result is the maximum of
\* the eligible candidates, it is eligible, no eligible candidate scores
\* higher, and it is None exactly when no candidate is eligible.
C22_FilterThenMax ==
    sel.calls >= 1 =>
        /\ sel.results[1] = FirstMax(SelEligibleDeals)
        /\ sel.results[1] = <<>> <=> SelEligible = {}
        /\ \A i \in 1..Len(sel.results[1]) :
              /\ \E k \in SelEligible : sel.deals0[k] = sel.results[1][i]
              /\ \A j \in SelEligible : score(sel.deals0[j]) <= score(sel.results[1][i])

\* The ledger removes the best deal, and the winner is not the first of the
\* eligible deals in input order.
C22_Witness ==
    /\ sel.calls >= 1
    /\ sel.results[1] # <<>>
    /\ \E i \in 1..Len(sel.deals0) :
          i \notin SelEligible /\ score(sel.deals0[i]) > score(sel.results[1][1])
    /\ sel.results[1] # <<sel.deals0[SelFirst(SelEligible)]>>

\* C23: a cycle serves the cached list of its key only if that list is not
\* empty and younger than 30 minutes (flash) or 2 hours (browse), and then
\* makes no request; otherwise it makes one.  An empty or failed result is
\* not written; a non-empty one replaces the entry of its key, and no cycle
\* touches the entry of another key.
C23_CacheDiscipline ==
    /\ [](\A k \in CacheKeys : keepa_cache[k] # <<>> => keepa_cache[k][1].data # <<>>)
    /\ [][(CycleStep /\ last'.outcome # "off_hours") =>
            LET key == IF last'.lightning THEN "lightning_deals"
                       ELSE BrowsingKey(last'.channel)
                ttl_minutes == IF last'.lightning THEN 30 ELSE 120
                entry == keepa_cache[key]
                fresh == /\ entry # <<>>
                         /\ entry[1].data # <<>>
                         /\ 60 * (LocalNow - entry[1].cached_at) < ttl_minutes
                served == Count(last'.events, "http") = 0
            IN  /\ served <=> fresh
                /\ served =>
                      /\ keepa_cache' = keepa_cache
                      /\ \A i \in 1..Len(last'.deal) :
                            last'.deal[i] \in Range(entry[1].data)
                /\ \A k \in CacheKeys \ {key} : keepa_cache'[k] = keepa_cache[k]
                /\ last'.outcome = "no_deals" => keepa_cache' = keepa_cache
                /\ (~served /\ last'.outcome # "no_deals") =>
                      /\ Count(last'.events, "cache_put") = 1
                      /\ keepa_cache'[key] # <<>>
                      /\ keepa_cache'[key][1].cached_at = LocalNow
                      /\ keepa_cache'[key][1].data # <<>>]_vars

\* A browse list served an hour after it was cached, the flash list of an
\* earlier hour still in the table.
C23_Witness ==
    /\ Attempted
    /\ ~last.lightning
    /\ Count(last.events, "http") = 0
    /\ keepa_cache[BrowsingKey(last.channel)][1].cached_at = LocalNow - 1
    /\ keepa_cache["lightning_deals"] # <<>>
    /\ keepa_cache["lightning_deals"][1].cached_at < LocalNow

====
